---- MODULE Spec2Model ----
(***************************************************************************)
(* A model of torch/csrc/jit/subgraph_matcher.cpp: the SubgraphMatcher     *)
(* class (matchValues, matchNodes, matchesSubgraphFromAnchorNode), the     *)
(* pattern validator patternGraphIsValid and the driver findPatternMatches.*)
(*                                                                         *)
(* The recursion of matchNodes/matchValues is modelled with an explicit    *)
(* call stack (frames), one action per function body or loop step, so that *)
(* the maps can be observed between any two calls.                         *)
(***************************************************************************)
EXTENDS Integers, Sequences, FiniteSets, TLC

\* ------------------------------------------------------------------ bounds
MaxPOps  == 2   \* operator nodes of a generated pattern graph
MaxTOps  == 2   \* operator nodes of a generated target graph
MaxIns   == 2   \* inputs of a generated operator node
MaxCalls == 2   \* calls of findPatternMatches in one behaviour

\* ------------------------------------------------------- the graph model
\* A Graph is [nin, ops, ret]:
\*   nin  the number of outputs of the root block's Param node (node 0),
\*   ops  the operator nodes 1..Len(ops), in program order, each
\*        [kind, ins, nouts, blk, nblk]: operator kind, ordered input
\*        values, number of outputs, owning block, number of owned blocks,
\*   ret  the ordered inputs of the root block's Return node.
\* A Value is <<n, j>>: the j-th output of node n.  A Block is <<n, k>>: the
\* k-th block owned by node n; <<0, 0>> is the graph's root block.  The Param
\* and Return nodes of the other blocks carry no values in the graphs
\* considered here, so no value refers to them and they are left out.
RootBlock == <<0, 0>>
ParamNode == 0
NoNode    == 0 - 1
Param     == "Param"
Kinds     == {"A", "B"}

NumOps(g) == Len(g.ops)

\* n->kind()
Kind(g, n) == IF n = ParamNode THEN Param ELSE g.ops[n].kind

\* n->inputs()
Inputs(g, n) == IF n = ParamNode THEN <<>> ELSE g.ops[n].ins

\* n->outputs()
Outputs(g, n) ==
  [j \in 1..(IF n = ParamNode THEN g.nin ELSE g.ops[n].nouts) |-> <<n, j>>]

\* n->owningBlock()
OwningBlock(g, n) == IF n = ParamNode THEN RootBlock ELSE g.ops[n].blk

\* n->blocks()
Blocks(g, n) ==
  [k \in 1..(IF n = ParamNode THEN 0 ELSE g.ops[n].nblk) |-> <<n, k>>]

\* v->node()
DefNode(v) == v[1]

\* v->uses().size(): one use per (consumer, input offset), the Return node's
\* inputs included.
NumUses(g, v) ==
  Cardinality({u \in UNION {{<<n, k>> : k \in DOMAIN g.ops[n].ins} : n \in 1..NumOps(g)} :
                 g.ops[u[1]].ins[u[2]] = v})
  + Cardinality({k \in DOMAIN g.ret : g.ret[k] = v})

\* block->nodes(): the operator nodes owned by block b, in sequence order
\* (the block's Param and Return nodes are not part of the iteration).
BlockNodes(g, b) ==
  SelectSeq([i \in 1..NumOps(g) |-> i], LAMBDA n : g.ops[n].blk = b)

\* *(g.nodes().end()): the sentinel of the root block's node list, which is
\* the root block's Return node; its inputs are g.ret.
BottomNodeInputs(g) == g.ret

\* ------------------------------------------------- well-formed input graphs
SeqsUpTo(S, n) == UNION {[1..k -> S] : k \in 0..n}

\* The nodes whose outputs are in scope inside block b: those of b itself,
\* and those of an enclosing block that precede the node owning the way down.
RECURSIVE VisibleNodes(_, _)
VisibleNodes(ops, b) ==
  {n \in 1..Len(ops) : ops[n].blk = b} \cup
  (IF b = RootBlock THEN {ParamNode}
   ELSE {n \in VisibleNodes(ops, ops[b[1]].blk) : n < b[1]})

VisibleValues(nin, ops, b) ==
  {<<ParamNode, j>> : j \in 1..nin} \cup
  UNION {{<<n, j>> : j \in 1..ops[n].nouts} : n \in VisibleNodes(ops, b) \ {ParamNode}}

AvailBlocks(ops) ==
  {RootBlock} \cup UNION {{<<n, k>> : k \in 1..ops[n].nblk} : n \in 1..Len(ops)}

\* A graph is well formed when every input of every node is a value in scope
\* at that node (defined earlier, in the same or an enclosing block), every
\* node lives in the root block or in a block of an earlier node, and the
\* Return node reads values of the root scope.
WellFormed(g) ==
  /\ \A n \in 1..NumOps(g) :
       LET before == SubSeq(g.ops, 1, n - 1) IN
       /\ g.ops[n].blk \in AvailBlocks(before)
       /\ \A k \in DOMAIN g.ops[n].ins :
            g.ops[n].ins[k] \in VisibleValues(g.nin, before, g.ops[n].blk)
  /\ \A k \in DOMAIN g.ret : g.ret[k] \in VisibleValues(g.nin, g.ops, RootBlock)

\* The flat single-output graphs with one graph input and at most n operator
\* nodes, returning the value computed last.
FlatOpsFor(ops) ==
  {[kind |-> kd, ins |-> ins, nouts |-> 1, blk |-> RootBlock, nblk |-> 0] :
     kd \in Kinds, ins \in SeqsUpTo(VisibleValues(1, ops, RootBlock), MaxIns)}

RECURSIVE FlatOpSeqs(_)
FlatOpSeqs(n) ==
  IF n = 0 THEN {<<>>}
  ELSE LET prev == FlatOpSeqs(n - 1) IN
       prev \cup UNION {{Append(ops, op) : op \in FlatOpsFor(ops)} :
                          ops \in {p \in prev : Len(p) = n - 1}}

FlatGraphs(n) ==
  {[nin |-> 1, ops |-> ops, ret |-> << <<Len(ops), 1>> >>] : ops \in FlatOpSeqs(n)}

Op(kd, ins, no, b, nb) == [kind |-> kd, ins |-> ins, nouts |-> no, blk |-> b, nblk |-> nb]
Flat(kd, ins) == Op(kd, ins, 1, RootBlock, 0)

\* -------------------------------------------------- hand-written scenarios
x1 == <<ParamNode, 1>>
x2 == <<ParamNode, 2>>

\* Param -> Add -> Exit, "Add" taking two pattern inputs.
PatAdd ==
  [nin |-> 2, ops |-> << Flat("Add", <<x1, x2>>) >>, ret |-> << <<1, 1>> >>]

\* Two producers of the same kind feeding one consumer, each also read by a
\* node that does not contribute to the returned value.
PatTwoProducers ==
  [nin |-> 1,
   ops |-> << Flat("A", <<>>), Flat("A", <<>>),
              Flat("B", << <<1, 1>>, <<2, 1>> >>),
              Flat("B", << <<1, 1>>, <<2, 1>> >>) >>,
   ret |-> << <<4, 1>> >>]

\* A two-output producer whose outputs are consumed in order.
PatSplit ==
  [nin |-> 1,
   ops |-> << Op("A", <<x1>>, 2, RootBlock, 0),
              Flat("B", << <<1, 1>>, <<1, 2>> >>) >>,
   ret |-> << <<2, 1>> >>]

\* Patterns that patternGraphIsValid rejects.
PatWithBlock ==
  [nin |-> 1,
   ops |-> << Op("A", <<x1>>, 1, RootBlock, 1), Flat("B", << <<1, 1>> >>) >>,
   ret |-> << <<2, 1>> >>]

PatNoReturn ==
  [nin |-> 1, ops |-> << Flat("A", <<x1>>) >>, ret |-> <<>>]

PatTwoReturns ==
  [nin |-> 1, ops |-> << Flat("A", <<x1>>) >>, ret |-> << <<1, 1>>, x1 >>]

\* Const(5) -> Add(x, 5) -> Mul(_, 2)
TgtConstAddMul ==
  [nin |-> 1,
   ops |-> << Flat("Const", <<>>), Flat("Add", <<x1, <<1, 1>> >>),
              Flat("Const", <<>>), Flat("Mul", << <<2, 1>>, <<3, 1>> >>) >>,
   ret |-> << <<4, 1>> >>]

\* A node owning two sibling blocks; the first block reads a value of the
\* root block, the second holds a producer/consumer pair of its own.
TgtSiblings ==
  [nin |-> 1,
   ops |-> << Flat("A", <<x1>>),
              Op("B", <<x1>>, 1, RootBlock, 2),
              Op("B", << <<1, 1>> >>, 1, <<2, 1>>, 0),
              Op("A", <<x1>>, 1, <<2, 2>>, 0),
              Op("B", << <<4, 1>> >>, 1, <<2, 2>>, 0) >>,
   ret |-> << <<2, 1>> >>]

\* Blocks nested two deep, the innermost reading a value of its parent.
TgtNested ==
  [nin |-> 1,
   ops |-> << Op("A", <<x1>>, 1, RootBlock, 1),
              Op("A", <<x1>>, 1, <<1, 1>>, 0),
              Op("B", <<x1>>, 1, <<1, 1>>, 1),
              Op("B", << <<2, 1>> >>, 1, <<3, 1>>, 0) >>,
   ret |-> << <<1, 1>> >>]

\* A two-output producer read in order, and read with the outputs swapped.
TgtSplit ==
  [nin |-> 1,
   ops |-> << Op("A", <<x1>>, 2, RootBlock, 0),
              Flat("B", << <<1, 1>>, <<1, 2>> >>) >>,
   ret |-> << <<2, 1>> >>]

TgtSwapped ==
  [nin |-> 1,
   ops |-> << Op("A", <<x1>>, 2, RootBlock, 0),
              Flat("B", << <<1, 2>>, <<1, 1>> >>) >>,
   ret |-> << <<2, 1>> >>]

\* An operator of a generated kind with one input more than MaxIns allows.
TgtThreeInputs ==
  [nin |-> 1,
   ops |-> << Flat("A", <<x1, x1>>), Flat("A", <<x1, <<1, 1>>, x1>>) >>,
   ret |-> << <<2, 1>> >>]

PatThreeInputs ==
  [nin |-> 1,
   ops |-> << Flat("A", <<x1, x1, x1>>) >>,
   ret |-> << <<1, 1>> >>]

PatternGraphs ==
  FlatGraphs(MaxPOps) \cup
  {PatAdd, PatTwoProducers, PatSplit, PatThreeInputs,
   PatWithBlock, PatNoReturn, PatTwoReturns}

TargetGraphs ==
  FlatGraphs(MaxTOps) \cup
  {TgtConstAddMul, TgtSiblings, TgtNested, TgtSplit, TgtSwapped, TgtThreeInputs}

\* ------------------------------------------------------------------ state
VARIABLES
  pattern,          \* findPatternMatches' argument: the pattern graph
  graph,            \* findPatternMatches' argument: the target graph
  pc,               \* where the call is: "call", "while", "for", "matchNodes",
                    \* "loop", "matchValues", "return", "done", "failed"
  calls,            \* how many times findPatternMatches has been called
  matches,          \* std::vector<Match> matches
  blocks_to_visit,  \* std::stack<const Block*>, top last
  block,            \* the block the for loop iterates
  pos,              \* the for loop's position in block->nodes()
  nodes_map,        \* SubgraphMatcher::nodes_map_
  values_map,       \* SubgraphMatcher::values_map_
  anchor,           \* SubgraphMatcher::anchor_
  frames,           \* the active matchNodes calls that are in their loops
  args,             \* the arguments of the call being entered
  ret,              \* the value the last call returned
  attempts,         \* history: the anchors attempted in this call, in order
  expanded          \* history: the pattern entities recorded in this attempt

vars == <<pattern, graph, pc, calls, matches, blocks_to_visit, block, pos,
          nodes_map, values_map, anchor, frames, args, ret, attempts, expanded>>

inputs == <<pattern, graph>>
driver == <<matches, blocks_to_visit, block, pos, attempts>>
matcher == <<nodes_map, values_map, anchor, frames, args, ret, expanded>>

EmptyMap == <<>>
NoArgs == <<>>

Put(map, k, v) == [x \in (DOMAIN map) \cup {k} |-> IF x = k THEN v ELSE map[x]]

\* ------------------------------------------------------ patternGraphIsValid
\* patternGraphIsValid without its loop over the nodes' blocks.
PatternGraphIsValidNoBlockCheck(p) == Len(BottomNodeInputs(p)) = 1

\* Every node of the pattern's root block owns no block, and the node the
\* end of the node list designates has exactly one input.
PatternGraphIsValid(p) ==
  /\ \A i \in DOMAIN BlockNodes(p, RootBlock) :
       Len(Blocks(p, BlockNodes(p, RootBlock)[i])) = 0
  /\ Len(BottomNodeInputs(p)) = 1

\* ---------------------------------------------- the conditions of the matcher
\* matchValues without its look-up of v1.
ValueNeverVisited(vm, v1) == FALSE

\* values_map_.count(v1)
ValueVisited(vm, v1) == v1 \in DOMAIN vm

\* matchValues rejecting only a pattern value with more uses than the target's.
UsesAgreeOneSided(p, g, a, v1, v2) ==
  ~ (/\ NumUses(p, v1) > NumUses(g, v2)
     /\ DefNode(v2) # a
     /\ Kind(p, DefNode(v1)) # Param)

\* The negation of the rejecting condition of matchValues: the use counts
\* differ, v2 is not defined by the anchor and v1 is not defined by Param.
UsesAgree(p, g, a, v1, v2) ==
  ~ (/\ NumUses(p, v1) # NumUses(g, v2)
     /\ DefNode(v2) # a
     /\ Kind(p, DefNode(v1)) # Param)

\* matchNodes without its look-up of n1.
NodeNeverVisited(nm, n1) == FALSE

\* nodes_map_.count(n1)
NodeVisited(nm, n1) == n1 \in DOMAIN nm

\* matchNodes without its test of the owning block.
SameBlockUnchecked(g, a, n2) == TRUE

\* n2->owningBlock() == anchor_->owningBlock()
SameBlock(g, a, n2) == OwningBlock(g, n2) = OwningBlock(g, a)

\* matchNodes comparing the arities only.
SameShapeArityOnly(p, g, n1, n2) ==
  ~ (\/ Len(Outputs(p, n1)) # Len(Outputs(g, n2))
     \/ Len(Inputs(p, n1)) # Len(Inputs(g, n2)))

\* The negation of the rejecting condition of matchNodes on kind and arity.
SameShape(p, g, n1, n2) ==
  ~ (\/ Kind(p, n1) # Kind(g, n2)
     \/ Len(Outputs(p, n1)) # Len(Outputs(g, n2))
     \/ Len(Inputs(p, n1)) # Len(Inputs(g, n2)))

\* matchNodes without its loop over the inputs.
LoopLengthOutputsOnly(p, n1) == Len(Outputs(p, n1))

\* The number of matchValues calls the two loops of matchNodes make when
\* none fails: one per output, then one per input.
LoopLength(p, n1) == Len(Outputs(p, n1)) + Len(Inputs(p, n1))

\* The k-th pair of values the loops of matchNodes compare.
LoopPair(p, g, n1, n2, k) ==
  IF k <= Len(Outputs(p, n1))
  THEN <<Outputs(p, n1)[k], Outputs(g, n2)[k]>>
  ELSE <<Inputs(p, n1)[k - Len(Outputs(p, n1))],
         Inputs(g, n2)[k - Len(Outputs(p, n1))]>>

\* matchesSubgraphFromAnchorNode without nodes_map_.clear().
StaleNodesMap == nodes_map

\* nodes_map_.clear() and values_map_.clear()
ClearedNodesMap == EmptyMap
ClearedValuesMap == EmptyMap

\* The node the attempt starts from in the pattern: the node defining the
\* single input of the pattern's bottom node.
PatternRoot(p) == DefNode(BottomNodeInputs(p)[1])

\* findPatternMatches without its loop over n->blocks().
PushNoSubBlocks(stack, g, n) == stack

\* for (subblock : n->blocks()) blocks_to_visit.push(subblock)
PushSubBlocks(stack, g, n) == stack \o Blocks(g, n)

\* {n, m.nodes_map(), m.values_map()}
MakeMatch(n, nm, vm) == [anchor |-> n, nodes_map |-> nm, values_map |-> vm]

\* ------------------------------------------------------------------ actions
Init ==
  /\ pattern \in {g \in PatternGraphs : WellFormed(g)}
  /\ graph \in {g \in TargetGraphs : WellFormed(g)}
  /\ pc = "call"
  /\ calls = 1
  /\ matches = <<>>
  /\ blocks_to_visit = <<>>
  /\ block = RootBlock
  /\ pos = 0
  /\ nodes_map = EmptyMap
  /\ values_map = EmptyMap
  /\ anchor = NoNode
  /\ frames = <<>>
  /\ args = NoArgs
  /\ ret = FALSE
  /\ attempts = <<>>
  /\ expanded = <<>>

\* findPatternMatches, up to the while loop: the assertion on the pattern
\* throws, or the matcher, the result vector and the stack are set up and the
\* root block is pushed.
Call ==
  /\ pc = "call"
  /\ IF ~ PatternGraphIsValid(pattern)
     THEN /\ pc' = "failed"
          /\ UNCHANGED blocks_to_visit
     ELSE /\ pc' = "while"
          /\ blocks_to_visit' = <<RootBlock>>
  /\ UNCHANGED <<inputs, calls, matches, block, pos, attempts, matcher>>

\* while (!blocks_to_visit.empty()): top and pop, and start the for loop.
VisitBlock ==
  /\ pc = "while"
  /\ blocks_to_visit # <<>>
  /\ block' = blocks_to_visit[Len(blocks_to_visit)]
  /\ blocks_to_visit' = SubSeq(blocks_to_visit, 1, Len(blocks_to_visit) - 1)
  /\ pos' = 1
  /\ pc' = "for"
  /\ UNCHANGED <<inputs, calls, matches, attempts, matcher>>

\* The while loop ends: return matches.
ReturnMatches ==
  /\ pc = "while"
  /\ blocks_to_visit = <<>>
  /\ pc' = "done"
  /\ UNCHANGED <<inputs, calls, driver, matcher>>

\* The for loop reaches the end of block->nodes().
BlockDone ==
  /\ pc = "for"
  /\ pos > Len(BlockNodes(graph, block))
  /\ pc' = "while"
  /\ UNCHANGED <<inputs, calls, driver, matcher>>

\* The for loop takes node n and enters matchesSubgraphFromAnchorNode(n):
\* both maps are cleared, the anchor is set, and matchNodes is called on the
\* pattern's root and the anchor.
Attempt ==
  /\ pc = "for"
  /\ pos <= Len(BlockNodes(graph, block))
  /\ LET n == BlockNodes(graph, block)[pos] IN
       /\ nodes_map' = ClearedNodesMap
       /\ values_map' = ClearedValuesMap
       /\ anchor' = n
       /\ args' = <<PatternRoot(pattern), n>>
       /\ attempts' = Append(attempts, n)
  /\ expanded' = <<>>
  /\ frames' = <<>>
  /\ pc' = "matchNodes"
  /\ UNCHANGED <<inputs, calls, matches, blocks_to_visit, block, pos, ret>>

\* matchNodes(n1, n2) up to its loops: an early return, or the pair is
\* recorded and the loops start.
MatchNodes ==
  /\ pc = "matchNodes"
  /\ LET n1 == args[1]
         n2 == args[2]
     IN
       IF NodeVisited(nodes_map, n1)
       THEN /\ ret' = (nodes_map[n1] = n2)
            /\ pc' = "return"
            /\ UNCHANGED <<nodes_map, frames, expanded>>
       ELSE IF Kind(pattern, n1) = Param
       THEN /\ ret' = TRUE
            /\ pc' = "return"
            /\ UNCHANGED <<nodes_map, frames, expanded>>
       ELSE IF ~ SameBlock(graph, anchor, n2)
       THEN /\ ret' = FALSE
            /\ pc' = "return"
            /\ UNCHANGED <<nodes_map, frames, expanded>>
       ELSE IF ~ SameShape(pattern, graph, n1, n2)
       THEN /\ ret' = FALSE
            /\ pc' = "return"
            /\ UNCHANGED <<nodes_map, frames, expanded>>
       ELSE /\ nodes_map' = Put(nodes_map, n1, n2)
            /\ frames' = Append(frames, [n1 |-> n1, n2 |-> n2, k |-> 1])
            /\ expanded' = Append(expanded, <<"node", n1>>)
            /\ pc' = "loop"
            /\ UNCHANGED ret
  /\ args' = NoArgs
  /\ UNCHANGED <<inputs, calls, driver, values_map, anchor>>

\* One test of the loops of the innermost matchNodes: call matchValues on the
\* next pair of outputs, then of inputs, or leave the loops and return true.
Loop ==
  /\ pc = "loop"
  /\ LET f == frames[Len(frames)] IN
       IF f.k <= LoopLength(pattern, f.n1)
       THEN /\ args' = LoopPair(pattern, graph, f.n1, f.n2, f.k)
            /\ pc' = "matchValues"
            /\ UNCHANGED <<frames, ret>>
       ELSE /\ frames' = SubSeq(frames, 1, Len(frames) - 1)
            /\ ret' = TRUE
            /\ pc' = "return"
            /\ UNCHANGED args
  /\ UNCHANGED <<inputs, calls, driver, nodes_map, values_map, anchor, expanded>>

\* matchValues(v1, v2) up to its call of matchNodes: an early return, or the
\* pair is recorded and matchNodes is called on the defining nodes (a tail
\* call: its result is matchValues' result).
MatchValues ==
  /\ pc = "matchValues"
  /\ LET v1 == args[1]
         v2 == args[2]
     IN
       IF ValueVisited(values_map, v1)
       THEN /\ ret' = (values_map[v1] = v2)
            /\ pc' = "return"
            /\ args' = NoArgs
            /\ UNCHANGED <<values_map, expanded>>
       ELSE IF ~ UsesAgree(pattern, graph, anchor, v1, v2)
       THEN /\ ret' = FALSE
            /\ pc' = "return"
            /\ args' = NoArgs
            /\ UNCHANGED <<values_map, expanded>>
       ELSE /\ values_map' = Put(values_map, v1, v2)
            /\ expanded' = Append(expanded, <<"value", v1>>)
            /\ args' = <<DefNode(v1), DefNode(v2)>>
            /\ pc' = "matchNodes"
            /\ UNCHANGED ret
  /\ UNCHANGED <<inputs, calls, driver, nodes_map, anchor, frames>>

\* A matchValues call returns into a loop of matchNodes: false makes that
\* matchNodes return false, true moves the loop on.
LoopReturn ==
  /\ pc = "return"
  /\ frames # <<>>
  /\ IF ret
     THEN /\ frames' = [frames EXCEPT ![Len(frames)].k = @ + 1]
          /\ pc' = "loop"
     ELSE /\ frames' = SubSeq(frames, 1, Len(frames) - 1)
          /\ pc' = "return"
  /\ UNCHANGED <<inputs, calls, driver, nodes_map, values_map, anchor, args, ret,
                 expanded>>

\* The outermost matchNodes returns to matchesSubgraphFromAnchorNode and that
\* to the for loop: a success is appended to matches with copies of the maps,
\* the node's blocks are pushed, and the loop moves on.
AttemptDone ==
  /\ pc = "return"
  /\ frames = <<>>
  /\ matches' = IF ret THEN Append(matches, MakeMatch(anchor, nodes_map, values_map))
                ELSE matches
  /\ blocks_to_visit' = PushSubBlocks(blocks_to_visit, graph, anchor)
  /\ pos' = pos + 1
  /\ pc' = "for"
  /\ UNCHANGED <<inputs, calls, block, attempts, matcher>>

\* The caller calls findPatternMatches again with the same arguments; the
\* locals of the call before are gone.
CallAgain ==
  /\ pc \in {"done", "failed"}
  /\ calls < MaxCalls
  /\ calls' = calls + 1
  /\ pc' = "call"
  /\ matches' = <<>>
  /\ blocks_to_visit' = <<>>
  /\ block' = RootBlock
  /\ pos' = 0
  /\ nodes_map' = EmptyMap
  /\ values_map' = EmptyMap
  /\ anchor' = NoNode
  /\ frames' = <<>>
  /\ args' = NoArgs
  /\ ret' = FALSE
  /\ attempts' = <<>>
  /\ expanded' = <<>>
  /\ UNCHANGED inputs

Next ==
  \/ Call
  \/ VisitBlock
  \/ ReturnMatches
  \/ BlockDone
  \/ Attempt
  \/ MatchNodes
  \/ Loop
  \/ MatchValues
  \/ LoopReturn
  \/ AttemptDone
  \/ CallAgain

Spec == Init /\ [][Next]_vars

\* The calls run to completion: no step that can be taken is postponed for
\* ever (the code is single-threaded and synchronous).
FairSpec == Spec /\ WF_vars(Next)

\* --------------------------------------- the matcher as a recursive function
\* matchNodes, its loops and matchValues run to completion on the maps nm and
\* vm with anchor a; the result is the returned flag and the maps left behind.
RECURSIVE RunMatchNodes(_, _, _, _, _)
RECURSIVE RunLoop(_, _, _, _, _, _)
RECURSIVE RunMatchValues(_, _, _, _, _)

RunMatchNodes(a, nm, vm, n1, n2) ==
  IF NodeVisited(nm, n1) THEN [ok |-> nm[n1] = n2, nm |-> nm, vm |-> vm]
  ELSE IF Kind(pattern, n1) = Param THEN [ok |-> TRUE, nm |-> nm, vm |-> vm]
  ELSE IF ~ SameBlock(graph, a, n2) THEN [ok |-> FALSE, nm |-> nm, vm |-> vm]
  ELSE IF ~ SameShape(pattern, graph, n1, n2) THEN [ok |-> FALSE, nm |-> nm, vm |-> vm]
  ELSE RunLoop(a, Put(nm, n1, n2), vm, n1, n2, 1)

RunLoop(a, nm, vm, n1, n2, k) ==
  IF k > LoopLength(pattern, n1) THEN [ok |-> TRUE, nm |-> nm, vm |-> vm]
  ELSE LET pr == LoopPair(pattern, graph, n1, n2, k)
           r  == RunMatchValues(a, nm, vm, pr[1], pr[2])
       IN IF r.ok THEN RunLoop(a, r.nm, r.vm, n1, n2, k + 1) ELSE r

RunMatchValues(a, nm, vm, v1, v2) ==
  IF ValueVisited(vm, v1) THEN [ok |-> vm[v1] = v2, nm |-> nm, vm |-> vm]
  ELSE IF ~ UsesAgree(pattern, graph, a, v1, v2) THEN [ok |-> FALSE, nm |-> nm, vm |-> vm]
  ELSE RunMatchNodes(a, nm, Put(vm, v1, v2), DefNode(v1), DefNode(v2))

\* matchesSubgraphFromAnchorNode(a) on a matcher that has attempted nothing.
FreshAttempt(a) ==
  RunMatchNodes(a, EmptyMap, EmptyMap, PatternRoot(pattern), a)

\* ------------------------------------------------------------------- claims
AttemptFinished == pc = "return" /\ frames = <<>>
MatchSet == {matches[i] : i \in DOMAIN matches}
InteriorPair(m, pv) ==
  /\ DefNode(m.values_map[pv]) # m.anchor
  /\ Kind(pattern, DefNode(pv)) # Param

\* C1: in every Match returned, every value pair pv -> tv has equal use
\* counts, unless tv is defined by the Match's anchor or pv by a Param node.
C1_UseCountRule ==
  \A m \in MatchSet : \A pv \in DOMAIN m.values_map :
    \/ NumUses(pattern, pv) = NumUses(graph, m.values_map[pv])
    \/ DefNode(m.values_map[pv]) = m.anchor
    \/ Kind(pattern, DefNode(pv)) = Param

\* A Match holding a pair to which no exception applies, and a pair of
\* differing use counts that an exception lets through.
C1_Witness ==
  \E m \in MatchSet :
    /\ \E pv \in DOMAIN m.values_map : InteriorPair(m, pv)
    /\ \E pv \in DOMAIN m.values_map :
         NumUses(pattern, pv) # NumUses(graph, m.values_map[pv])

\* C2: in every Match returned, no two distinct pattern nodes are mapped to
\* the same target node.
C2_NodeMapInjective ==
  \A m \in MatchSet : \A p1, p2 \in DOMAIN m.nodes_map :
    p1 # p2 => m.nodes_map[p1] # m.nodes_map[p2]

\* C3: in every Match returned, every target node of the node map has the
\* owning block of the Match's anchor.
C3_ScopeIsolation ==
  \A m \in MatchSet : \A pn \in DOMAIN m.nodes_map :
    OwningBlock(graph, m.nodes_map[pn]) = OwningBlock(graph, m.anchor)

\* A Match of two nodes inside a nested block, after an attempt in another
\* block of the same graph was rejected.
C3_Witness ==
  /\ \E m \in MatchSet :
       /\ OwningBlock(graph, m.anchor) # RootBlock
       /\ Cardinality(DOMAIN m.nodes_map) >= 2
  /\ \E i \in DOMAIN attempts :
       /\ OwningBlock(graph, attempts[i]) # RootBlock
       /\ \A m \in MatchSet : m.anchor # attempts[i]

\* C4: in every Match returned, every node pair pn -> tn has the same kind,
\* the same number of inputs and the same number of outputs.
C4_KindAndArity ==
  \A m \in MatchSet : \A pn \in DOMAIN m.nodes_map :
    LET tn == m.nodes_map[pn] IN
    /\ Kind(pattern, pn) = Kind(graph, tn)
    /\ Len(Inputs(pattern, pn)) = Len(Inputs(graph, tn))
    /\ Len(Outputs(pattern, pn)) = Len(Outputs(graph, tn))

\* An attempt that ended in rejection at an anchor of the pattern root's kind
\* with 3 inputs against the root's 2, in a call that has returned a Match.
C4_Witness ==
  /\ AttemptFinished
  /\ ~ ret
  /\ Kind(pattern, PatternRoot(pattern)) = Kind(graph, anchor)
  /\ Len(Inputs(pattern, PatternRoot(pattern))) = 2
  /\ Len(Inputs(graph, anchor)) = 3
  /\ \E m \in MatchSet : DOMAIN m.nodes_map # {}

\* C5: for the pattern that is a Param node feeding the Return node, a call
\* that has returned holds exactly one Match per node of the target graph,
\* the nodes of nested blocks included, and attempted each node once.
ParamOnlyPattern ==
  /\ NumOps(pattern) = 0
  /\ Len(pattern.ret) = 1
  /\ DefNode(pattern.ret[1]) = ParamNode

C5_PlaceholderUniversality ==
  (ParamOnlyPattern /\ pc = "done") =>
    /\ Len(matches) = NumOps(graph)
    /\ {matches[i].anchor : i \in DOMAIN matches} = 1..NumOps(graph)
    /\ Len(attempts) = NumOps(graph)
    /\ {attempts[i] : i \in DOMAIN attempts} = 1..NumOps(graph)

\* The call has returned on a graph with blocks nested two deep.
C5_Witness ==
  /\ ParamOnlyPattern
  /\ pc = "done"
  /\ graph = TgtNested
  /\ Len(matches) = 4

\* C6: the outcome of an attempt on the shared matcher (returned flag, node
\* map, value map) is the outcome of the same attempt on a matcher that has
\* attempted nothing, and so is every Match returned.
C6_AttemptIndependent ==
  /\ AttemptFinished =>
       [ok |-> ret, nm |-> nodes_map, vm |-> values_map] = FreshAttempt(anchor)
  /\ \A m \in MatchSet :
       [ok |-> TRUE, nm |-> m.nodes_map, vm |-> m.values_map] = FreshAttempt(m.anchor)

\* An attempt succeeds with entries in its maps after an earlier attempt did.
C6_Witness ==
  /\ AttemptFinished
  /\ ret
  /\ DOMAIN nodes_map # {}
  /\ \E m \in MatchSet : DOMAIN m.nodes_map # {} /\ m.anchor # anchor

\* C7: with a pattern whose root block holds a node owning a block, or whose
\* Return node has not exactly one input, every call fails before any anchor
\* is attempted and returns no Match.
InvalidPattern ==
  \/ \E n \in 1..NumOps(pattern) :
       pattern.ops[n].blk = RootBlock /\ pattern.ops[n].nblk > 0
  \/ Len(pattern.ret) # 1

C7_InvalidPatternRejected ==
  InvalidPattern =>
    /\ pc \in {"call", "failed"}
    /\ attempts = <<>>
    /\ matches = <<>>

\* The second call with an invalid pattern has failed, on an empty graph.
C7_Witness ==
  /\ InvalidPattern
  /\ pc = "failed"
  /\ calls = 2
  /\ NumOps(graph) = 0

\* C8: within an attempt no entry of either map is overwritten or removed,
\* and a call on a mapped pattern entity returns whether the target is the
\* recorded one and changes neither map.
ResetStep == (pc = "for" /\ pc' = "matchNodes") \/ pc' = "call"
Kept(map, map2) == \A k \in DOMAIN map : k \in DOMAIN map2 /\ map2[k] = map[k]

C8_WriteOnce ==
  [][/\ ~ ResetStep => (Kept(nodes_map, nodes_map') /\ Kept(values_map, values_map'))
     /\ (pc = "matchNodes" /\ args[1] \in DOMAIN nodes_map) =>
          /\ pc' = "return"
          /\ ret' = (nodes_map[args[1]] = args[2])
          /\ UNCHANGED <<nodes_map, values_map>>
     /\ (pc = "matchValues" /\ args[1] \in DOMAIN values_map) =>
          /\ pc' = "return"
          /\ ret' = (values_map[args[1]] = args[2])
          /\ UNCHANGED <<nodes_map, values_map>>]_vars

\* matchValues is entered on a mapped pattern value and another target value.
C8_Witness ==
  /\ pc = "matchValues"
  /\ args[1] \in DOMAIN values_map
  /\ values_map[args[1]] # args[2]

\* C9: within an attempt each pattern node and value is recorded, and so
\* recursed into, at most once, and every call ends.
NoDuplicates(seq) == \A i, j \in DOMAIN seq : i # j => seq[i] # seq[j]

C9_Termination ==
  /\ [](NoDuplicates(expanded))
  /\ [](pc = "call" => <>(pc \in {"done", "failed"}))

\* matchNodes is entered again on a node whose loops are still running: the
\* node -> output -> defining node cycle.
C9_Witness ==
  /\ pc = "matchNodes"
  /\ \E i \in DOMAIN frames : frames[i].n1 = args[1] /\ frames[i].n2 = args[2]

\* C10: in every Match returned, the value map takes the i-th output and
\* input of a mapped pattern node to the i-th output and input of its target
\* node, and the node map takes the defining node of a mapped pattern value,
\* unless Param, to the defining node of its target value.
C10_StructurePreserved ==
  \A m \in MatchSet :
    /\ \A pn \in DOMAIN m.nodes_map :
         LET tn == m.nodes_map[pn] IN
         /\ \A i \in DOMAIN Outputs(pattern, pn) :
              /\ Outputs(pattern, pn)[i] \in DOMAIN m.values_map
              /\ i \in DOMAIN Outputs(graph, tn)
              /\ m.values_map[Outputs(pattern, pn)[i]] = Outputs(graph, tn)[i]
         /\ \A i \in DOMAIN Inputs(pattern, pn) :
              /\ Inputs(pattern, pn)[i] \in DOMAIN m.values_map
              /\ i \in DOMAIN Inputs(graph, tn)
              /\ m.values_map[Inputs(pattern, pn)[i]] = Inputs(graph, tn)[i]
    /\ \A pv \in DOMAIN m.values_map :
         Kind(pattern, DefNode(pv)) # Param =>
           /\ DefNode(pv) \in DOMAIN m.nodes_map
           /\ m.nodes_map[DefNode(pv)] = DefNode(m.values_map[pv])

\* A Match of two nodes, one of them with two outputs, and a Param value.
C10_Witness ==
  \E m \in MatchSet :
    /\ \E pn \in DOMAIN m.nodes_map : Len(Outputs(pattern, pn)) = 2
    /\ Cardinality(DOMAIN m.nodes_map) >= 2
    /\ \E pv \in DOMAIN m.values_map : Kind(pattern, DefNode(pv)) = Param
====
